---- MODULE Spec2Model ----
(***************************************************************************)
(* A model of upscale/main.py: upscale_image, process_tile and             *)
(* ProgressTracker.  One run of upscale_image is one behaviour: the        *)
(* orchestrating thread walks through validation, loading, the tiling       *)
(* decision, the tiling loop, the ThreadPoolExecutor dispatch, the          *)
(* combining loop and the save, while the executor's worker threads run     *)
(* process_tile concurrently.                                               *)
(*                                                                         *)
(* Rasters are not stored pixel by pixel.  A tile is the rectangle of the   *)
(* source it is a view of, a transform result is the tile it was computed   *)
(* from together with its shape, and the canvas is the sequence of          *)
(* rectangles written into it.                                              *)
(***************************************************************************)
EXTENDS Integers, Sequences, FiniteSets, TLC

VARIABLES
    pc,              \* position of the orchestrating thread in upscale_image
    scale,           \* argument scale
    tile_size,       \* argument tile_size
    file,            \* <<width, height>> of the raster stored at input_path
    cpu_count,       \* multiprocessing.cpu_count() of the host
    delta,           \* sr.upsample returns (rows*scale + delta, cols*scale + delta)
    off_tile,        \* the tile sr.upsample returns 4 channels for (0: none)
    started,         \* some external work (download, imread, ...) has begun
    image,           \* <<>> before cv2.imread, <<[rows, cols]>> after
    mode,            \* "" before line 257, then "tiled" or "single"
    tiles,           \* list tiles
    tile_positions,  \* list tile_positions
    ty, tx,          \* loop variables y, x of lines 276-277
    num_threads,     \* threads the executor has started
    queue,           \* the executor's work queue (indices into futures)
    futures,         \* the futures executor.map created, in submission order
    raised,          \* indices of the tiles whose sr.upsample call raised
    upscaled_tiles,  \* list upscaled_tiles
    tile_tracker,    \* ProgressTracker "Processing tiles"
    combine_tracker, \* ProgressTracker "Combining tiles"
    now,             \* time.time(), in ticks
    upscaled,        \* <<>> for None, <<canvas>> otherwise
    i,               \* loop variable i of line 313
    diagnostics,     \* indices of the tiles line 334 printed an error for
    whole_calls,     \* arguments of the sr.upsample calls of line 371
    output,          \* <<>>, or <<raster>> written by cv2.imwrite
    error            \* <<>>, or <<failure>> the run surfaced

inputs == <<scale, tile_size, file, cpu_count, delta, off_tile>>
loading == <<started, image>>
tiling == <<mode, tiles, tile_positions, ty, tx>>
executor == <<num_threads, queue, futures, raised>>
trackers == <<tile_tracker, combine_tracker, now>>
results == <<upscaled_tiles, upscaled, i, diagnostics, whole_calls, output>>

vars == <<pc, inputs, loading, tiling, executor, trackers, results, error>>

-----------------------------------------------------------------------------
(* Bounds of the model *)

MaxCpu == 3
MaxTiles == 4
MaxSide == 56
MaxGridTile == 20
MaxGridTiles == 64
TicksPerSecond == 4
MaxElapsed == 2

(* Program constants *)

overlap == 16
channels == 3
MinArea == 1000000

\* Line 180 with the scale factor 1 let through.
supported_scales_from_one == {1, 2, 3, 4}

\* Line 180: the scale factors a call accepts.
supported_scales == {2, 3, 4}

(* Inputs *)

Rasters == {<<500, 400>>, <<1000, 1000>>, <<2000, 1500>>, <<3000, 400>>}
TileSizes == {0, 512, 1024, 2000}
Scales == {1, 2, 3, 4, 5}
ShapeDeltas == {-1, 0, 1}
OffTiles == {0, 2}

-----------------------------------------------------------------------------
(* Helpers *)

Max(a, b) == IF a >= b THEN a ELSE b
Min(a, b) == IF a <= b THEN a ELSE b

\* Length of the numpy slice [a:b] of an axis of length n (a, b >= 0).
SliceLen(n, a, b) == Max(0, Min(b, n) - Min(a, n))

width == image[1].cols
height == image[1].rows

\* Line 42: update_interval = 0.5 seconds, in ticks.
update_interval == TicksPerSecond \div 2

\* time.time() when the run starts: seconds since the epoch, far more than
\* update_interval after the 0 that line 41 puts into last_update_time.
StartTime == update_interval

\* Lines 36-42, ProgressTracker(total, ...).  refreshes counts the calls of
\* display() made by update() and shown_at is the time of the last of them.
NewTracker(total) ==
    [total |-> total, current |-> 0, last_update_time |-> 0,
     refreshes |-> 0, shown_at |-> 0]

NoTracker == NewTracker(0)

-----------------------------------------------------------------------------
(* The tiling decision and the tiling loop, lines 256-287 *)

UseTilingAnyShape(w, h, ts) == ts > 0 /\ w * h > MinArea

UseTiling(w, h, ts) == ts > 0 /\ (w > ts \/ h > ts) /\ w * h > MinArea

NumTilesFloor(n, ts) == Max(1, n \div ts)

NumTiles(n, ts) == Max(1, (n + ts - 1) \div ts)

TilePositionUnclamped(x, y, w, h, ts) ==
    << Max(0, x * ts - overlap), Max(0, y * ts - overlap),
       (x + 1) * ts + overlap, (y + 1) * ts + overlap >>

\* Lines 279-282 with the column and the row index exchanged.
TilePositionTransposed(x, y, w, h, ts) ==
    << Max(0, y * ts - overlap), Max(0, x * ts - overlap),
       Min(w, (y + 1) * ts + overlap), Min(h, (x + 1) * ts + overlap) >>

TilePosition(x, y, w, h, ts) ==
    << Max(0, x * ts - overlap), Max(0, y * ts - overlap),
       Min(w, (x + 1) * ts + overlap), Min(h, (y + 1) * ts + overlap) >>

\* image[y_start:y_end, x_start:x_end]: the view's origin and shape.
ExtractTile(img, d) ==
    [y0 |-> d[2], x0 |-> d[1],
     rows |-> SliceLen(img.rows, d[2], d[4]),
     cols |-> SliceLen(img.cols, d[1], d[3])]

num_tiles_x == NumTiles(width, tile_size)
num_tiles_y == NumTiles(height, tile_size)
total_tiles == num_tiles_x * num_tiles_y

\* sr.upsample(tile): the result remembers the tile it was computed from.
Upsample(tile, s, dl, ch) ==
    [src |-> tile, rows |-> tile.rows * s + dl, cols |-> tile.cols * s + dl,
     depth |-> ch]

WholeImage(img) == [y0 |-> 0, x0 |-> 0, rows |-> img.rows, cols |-> img.cols]

\* The rasters and tile sizes a run is started with: those whose grid stays
\* within MaxTiles tiles.
Inputs ==
    {in \in Rasters \X TileSizes :
        UseTiling(in[1][1], in[1][2], in[2]) =>
            NumTiles(in[1][1], in[2]) * NumTiles(in[1][2], in[2]) <= MaxTiles}

-----------------------------------------------------------------------------
Init ==
    /\ pc = "Idle"
    /\ scale \in Scales
    /\ \E in \in Inputs : file = in[1] /\ tile_size = in[2]
    /\ cpu_count \in 1..MaxCpu
    /\ delta \in ShapeDeltas
    /\ off_tile \in IF delta = 0 THEN OffTiles ELSE {0}
    /\ started = FALSE
    /\ image = <<>>
    /\ mode = ""
    /\ tiles = <<>>
    /\ tile_positions = <<>>
    /\ ty = 0
    /\ tx = 0
    /\ num_threads = 0
    /\ queue = <<>>
    /\ futures = <<>>
    /\ raised = {}
    /\ upscaled_tiles = <<>>
    /\ tile_tracker = NoTracker
    /\ combine_tracker = NoTracker
    /\ now = StartTime
    /\ upscaled = <<>>
    /\ i = 0
    /\ diagnostics = {}
    /\ whole_calls = <<>>
    /\ output = <<>>
    /\ error = <<>>

-----------------------------------------------------------------------------
(* upscale_image up to the tiling decision, lines 179-257 *)

Failure(msg, exc) == [msg |-> msg, exc |-> exc]

NoExc == [type |-> "", args |-> <<>>]

\* sys.exit(1) after a printed message.
Exit(msg, exc) ==
    /\ pc' = "Exited"
    /\ error' = <<Failure(msg, exc)>>

\* Lines 180-182: an unsupported scale raises ValueError out of upscale_image.
ValidateScale ==
    /\ pc = "Idle"
    /\ IF scale \notin supported_scales
       THEN /\ pc' = "Raised"
            /\ error' = <<Failure("Scale is not supported",
                                  [type |-> "ValueError", args |-> <<scale>>])>>
       ELSE /\ pc' = "EnsureModel"
            /\ UNCHANGED error
    /\ UNCHANGED <<inputs, loading, tiling, executor, trackers, results>>

\* Lines 185-196: download the models when the model file is missing; exit
\* when it is still missing afterwards.
EnsureModel ==
    /\ pc = "EnsureModel"
    /\ \E on_disk \in BOOLEAN, fetched \in BOOLEAN :
          /\ started' = (started \/ ~on_disk)
          /\ IF on_disk \/ fetched
             THEN pc' = "ReadImage" /\ UNCHANGED error
             ELSE Exit("Model file not found", NoExc)
    /\ UNCHANGED <<inputs, image, tiling, executor, trackers, results>>

\* Lines 198-207: cv2.imread.
ReadImage ==
    /\ pc = "ReadImage"
    /\ started' = TRUE
    /\ \E readable \in BOOLEAN :
          IF readable
          THEN /\ image' = <<[rows |-> file[2], cols |-> file[1]]>>
               /\ pc' = "LoadModel"
               /\ UNCHANGED error
          ELSE /\ Exit("Error reading input image",
                       [type |-> "FileNotFoundError", args |-> <<>>])
               /\ UNCHANGED image
    /\ UNCHANGED <<inputs, tiling, executor, trackers, results>>

\* Lines 209-252: sr.readModel, sr.setModel and the backend selection.
LoadModel ==
    /\ pc = "LoadModel"
    /\ \E loaded \in BOOLEAN :
          IF loaded
          THEN pc' = "Decide" /\ UNCHANGED error
          ELSE Exit("Error loading model", [type |-> "cv2.error", args |-> <<>>])
    /\ UNCHANGED <<inputs, loading, tiling, executor, trackers, results>>

\* Lines 256-271 (tiled) or 340-343 (whole image).
Decide ==
    /\ pc = "Decide"
    /\ IF UseTiling(width, height, tile_size)
       THEN /\ mode' = "tiled"
            /\ pc' = "Partitioning"
       ELSE /\ mode' = "single"
            /\ pc' = "SingleShot"
    /\ tiles' = <<>>
    /\ tile_positions' = <<>>
    /\ ty' = 0
    /\ tx' = 0
    /\ UNCHANGED <<inputs, loading, executor, trackers, results, error>>

\* One iteration of the loops of lines 276-287.
CreateTile ==
    /\ pc = "Partitioning"
    /\ ty < num_tiles_y
    /\ LET d == TilePosition(tx, ty, width, height, tile_size) IN
          /\ tiles' = Append(tiles, ExtractTile(image[1], d))
          /\ tile_positions' = Append(tile_positions, d)
    /\ IF tx + 1 < num_tiles_x
       THEN tx' = tx + 1 /\ ty' = ty
       ELSE tx' = 0 /\ ty' = ty + 1
    /\ UNCHANGED <<pc, inputs, loading, mode, executor, trackers, results, error>>

-----------------------------------------------------------------------------
(* The dispatch, lines 289-303: ThreadPoolExecutor(max_workers=cpu_count)  *)
(* and executor.map(process_tile, ...).  executor.map submits one future   *)
(* per argument, in order, and then yields the futures' results in         *)
(* submission order; the executor starts a thread per submission until it  *)
(* has max_workers threads (an executor that reuses an idle thread instead  *)
(* starts fewer, which only removes interleavings); each thread takes work  *)
(* items off the queue in FIFO order.  Threads are interchangeable, so the  *)
(* model keeps the number of threads and, per future, the position of the   *)
(* thread running it.                                                       *)

max_workers_per_tile == Len(tiles)

max_workers == cpu_count

PendingFuture(arg) ==
    [state |-> "PENDING", at |-> "", loc |-> 0, arg |-> arg,
     result |-> <<>>, exc |-> <<>>]

Running == Cardinality({k \in 1..Len(futures) : futures[k].state = "RUNNING"})

\* Lines 290-299: the loops are over; the tracker and the executor are made.
StartDispatch ==
    /\ pc = "Partitioning"
    /\ ty >= num_tiles_y
    /\ tile_tracker' = NewTracker(total_tiles)
    /\ pc' = "Submit"
    /\ UNCHANGED <<inputs, loading, tiling, executor, combine_tracker, now,
                   results, error>>

\* Line 301, executor.map: submit process_tile for the next argument.
Submit ==
    /\ pc = "Submit"
    /\ LET k == Len(futures) + 1 IN
          /\ futures' = Append(futures, PendingFuture(tiles[k]))
          /\ queue' = Append(queue, k)
          /\ pc' = IF k = Len(tiles) THEN "Collect" ELSE "Submit"
    /\ num_threads' = IF num_threads < max_workers THEN num_threads + 1
                      ELSE num_threads
    /\ UNCHANGED <<inputs, loading, tiling, raised, trackers, results, error>>

\* An idle worker thread takes the next work item; a cancelled one is dropped.
WorkerTake ==
    /\ queue # <<>>
    /\ Running < num_threads
    /\ LET k == Head(queue) IN
          futures' = IF futures[k].state = "PENDING"
                     THEN [futures EXCEPT ![k].state = "RUNNING",
                                          ![k].at = "upsample"]
                     ELSE futures
    /\ queue' = Tail(queue)
    /\ UNCHANGED <<pc, inputs, loading, tiling, num_threads, raised, trackers,
                   results, error>>

\* process_tile when sr.upsample raises: nothing catches it, the exception
\* ends the work item and is stored in its future.
process_tile_blank(f) ==
    [f EXCEPT !.state = "FINISHED", !.at = "",
              !.result = <<[src |-> f.arg, rows |-> 0, cols |-> 0,
                            depth |-> channels]>>]

process_tile_raise(f) ==
    [f EXCEPT !.state = "FINISHED", !.at = "",
              !.exc = <<[type |-> "cv2.error", args |-> <<>>]>>]

\* Line 159: result = sr.upsample(tile), which returns or raises.
TileUpsample(k) ==
    /\ futures[k].state = "RUNNING"
    /\ futures[k].at = "upsample"
    /\ \E ok \in BOOLEAN :
          IF ok
          THEN /\ futures' = [futures EXCEPT
                     ![k].result = <<Upsample(futures[k].arg, scale, delta,
                                              IF k = off_tile THEN 4
                                              ELSE channels)>>,
                     ![k].at = "update"]
               /\ UNCHANGED raised
          ELSE /\ futures' = [futures EXCEPT ![k] = process_tile_raise(futures[k])]
               /\ raised' = raised \cup {k}
    /\ UNCHANGED <<pc, inputs, loading, tiling, num_threads, queue, trackers,
                   results, error>>

\* Line 45, self.current += amount, first half: the thread loads
\* self.current.  No lock is held.
TrackerLoad(k) ==
    /\ futures[k].state = "RUNNING"
    /\ futures[k].at = "update"
    /\ futures' = [futures EXCEPT ![k].loc = tile_tracker.current,
                                  ![k].at = "store"]
    /\ UNCHANGED <<pc, inputs, loading, tiling, num_threads, queue, raised,
                   trackers, results, error>>

\* Line 45, second half: the thread stores the sum.
TrackerStore(k) ==
    /\ futures[k].state = "RUNNING"
    /\ futures[k].at = "store"
    /\ tile_tracker' = [tile_tracker EXCEPT !.current = futures[k].loc + 1]
    /\ futures' = [futures EXCEPT ![k].at = "check", ![k].loc = 0]
    /\ UNCHANGED <<pc, inputs, loading, tiling, num_threads, queue, raised,
                   combine_tracker, now, results, error>>

\* Line 49: the condition under which update() refreshes the display.
Due(tracker, current_time) ==
    current_time - tracker.last_update_time >= update_interval

\* Line 50, self.display(), called by update() at time t.
Displayed(tracker, t) ==
    [tracker EXCEPT !.refreshes = @ + 1, !.shown_at = t]

\* Lines 48-50: the thread reads the clock and self.last_update_time and,
\* when the interval has elapsed, displays; otherwise update() and
\* process_tile return (line 162) and the future holds the result.
TrackerCheck(k) ==
    /\ futures[k].state = "RUNNING"
    /\ futures[k].at = "check"
    /\ IF Due(tile_tracker, now)
       THEN /\ tile_tracker' = Displayed(tile_tracker, now)
            /\ futures' = [futures EXCEPT ![k].at = "set", ![k].loc = now]
       ELSE /\ futures' = [futures EXCEPT ![k].state = "FINISHED", ![k].at = ""]
            /\ UNCHANGED tile_tracker
    /\ UNCHANGED <<pc, inputs, loading, tiling, num_threads, queue, raised,
                   combine_tracker, now, results, error>>

\* Line 51: self.last_update_time = current_time; then update() and
\* process_tile return.
TrackerSet(k) ==
    /\ futures[k].state = "RUNNING"
    /\ futures[k].at = "set"
    /\ tile_tracker' = [tile_tracker EXCEPT !.last_update_time = futures[k].loc]
    /\ futures' = [futures EXCEPT ![k].state = "FINISHED", ![k].at = "",
                                  ![k].loc = 0]
    /\ UNCHANGED <<pc, inputs, loading, tiling, num_threads, queue, raised,
                   combine_tracker, now, results, error>>

\* The future whose result executor.map's iterator yields next, given the
\* number of futures and the number of results already yielded.
NextFutureReversed(n, got) == n - got

NextFuture(n, got) == got + 1

\* Line 301 with the iterator yielding a result as soon as the transform has
\* returned it, while process_tile is still running.
ResultReadyEarly(f) == f.result # <<>> \/ f.state = "FINISHED"

\* Line 301: executor.map's iterator calls future.result(), which blocks until
\* the call of process_tile has returned or raised.
ResultReady(f) == f.state = "FINISHED"

\* Line 301, list(executor.map(...)): wait for the next future in submission
\* order; take its result, or re-raise its exception after cancelling the
\* futures that have not started.
Collect ==
    /\ pc = "Collect"
    /\ IF Len(upscaled_tiles) = Len(futures)
       THEN /\ pc' = "Join"
            /\ UNCHANGED <<futures, upscaled_tiles>>
       ELSE LET f == futures[NextFuture(Len(futures), Len(upscaled_tiles))] IN
            /\ ResultReady(f)
            /\ IF f.exc = <<>>
               THEN /\ upscaled_tiles' = Append(upscaled_tiles, f.result[1])
                    /\ UNCHANGED <<pc, futures>>
               ELSE /\ futures' = [k \in 1..Len(futures) |->
                                     IF futures[k].state = "PENDING"
                                     THEN [futures[k] EXCEPT !.state = "CANCELLED"]
                                     ELSE futures[k]]
                    /\ pc' = "JoinExc"
                    /\ UNCHANGED upscaled_tiles
    /\ UNCHANGED <<inputs, loading, tiling, num_threads, queue, raised,
                   trackers, upscaled, i, diagnostics, whole_calls, output,
                   error>>

\* The with statement's exit, executor.shutdown(wait=True): the threads are
\* joined, which they allow once the queue is drained.
Join ==
    /\ pc = "Join"
    /\ queue = <<>>
    /\ Running = 0
    /\ pc' = "Joined"
    /\ UNCHANGED <<inputs, loading, tiling, executor, trackers, results, error>>

\* The same exit with the exception of a tile in flight, then the handler of
\* lines 387-389.
JoinExc ==
    /\ pc = "JoinExc"
    /\ queue = <<>>
    /\ Running = 0
    /\ Exit("Error during upscaling",
            futures[NextFuture(Len(futures), Len(upscaled_tiles))].exc[1])
    /\ UNCHANGED <<inputs, loading, tiling, executor, trackers, results>>

-----------------------------------------------------------------------------
(* The combining loop, lines 303-339 *)

\* Lines 315-318 with the start left in source coordinates.
OutRegionUnscaledStart(d, s, output_width, output_height) ==
    << Max(0, d[1]), Max(0, d[2]),
       Min(output_width, d[3] * s), Min(output_height, d[4] * s) >>

\* Lines 315-318 with the start moved past the leading overlap, to the scaled
\* corner of the grid cell.
OutRegionPastOverlap(d, s, output_width, output_height) ==
    << (IF d[1] = 0 THEN 0 ELSE d[1] + overlap) * s,
       (IF d[2] = 0 THEN 0 ELSE d[2] + overlap) * s,
       Min(output_width, d[3] * s), Min(output_height, d[4] * s) >>

\* Lines 315-318: <<out_x_start, out_y_start, out_x_end, out_y_end>>.
OutRegion(d, s, output_width, output_height) ==
    << Max(0, d[1] * s), Max(0, d[2] * s),
       Min(output_width, d[3] * s), Min(output_height, d[4] * s) >>

\* Lines 324-327 with the far-side overlap cut off as well.
PortionShapeTrimmed(t, r, s) ==
    << SliceLen(t.rows, 0, Min(t.rows, r[4] - r[2] - overlap * s)),
       SliceLen(t.cols, 0, Min(t.cols, r[3] - r[1] - overlap * s)),
       t.depth >>

\* Lines 324-327 without the crop: the whole result is the portion.
PortionShapeUncropped(t, r, s) == << t.rows, t.cols, t.depth >>

\* Lines 324-327: <<rows, cols, channels>> of tile_portion, the crop from the
\* origin.
PortionShape(t, r, s) ==
    << SliceLen(t.rows, 0, Min(t.rows, r[4] - r[2])),
       SliceLen(t.cols, 0, Min(t.cols, r[3] - r[1])),
       t.depth >>

\* Lines 331-332: <<rows, cols, channels>> of the canvas slice assigned to.
TargetShape(canvas, r, p) ==
    << SliceLen(canvas.rows, r[2], r[2] + p[1]),
       SliceLen(canvas.cols, r[1], r[1] + p[2]),
       canvas.depth >>

\* An assignment that looks at height and width only.
AssignableAnyDepth(p, target) ==
    /\ p[1] = target[1] \/ p[1] = 1
    /\ p[2] = target[2] \/ p[2] = 1

\* numpy assigns when the value's shape broadcasts to the slice's shape and
\* raises ValueError otherwise.
Assignable(p, target) ==
    /\ p[1] = target[1] \/ p[1] = 1
    /\ p[2] = target[2] \/ p[2] = 1
    /\ p[3] = target[3] \/ p[3] = 1

\* One rectangle written into a raster: where, how large, copied from the
\* origin of which result, for which descriptor.
Write(y, x, shape, t, d) ==
    [y |-> y, x |-> x, rows |-> shape[1], cols |-> shape[2], data |-> t, d |-> d]

\* Lines 331-332 with an assignment that fills only the pixels nothing has
\* been written to: what was written before stays on top.
AssignUnder(writes, w) == <<w>> \o writes

\* Lines 331-332: the slice assignment replaces what the slice held, so a
\* pixel holds the value of the last write that covers it.
Assign(writes, w) == Append(writes, w)

\* Lines 303-312: tile_tracker.complete(), the zero canvas, combine_tracker.
BeginCompositing ==
    /\ pc = "Joined"
    /\ tile_tracker' = [tile_tracker EXCEPT !.current = tile_tracker.total]
    /\ upscaled' = <<[rows |-> height * scale, cols |-> width * scale,
                      depth |-> channels, writes |-> <<>>]>>
    /\ combine_tracker' = NewTracker(total_tiles)
    /\ i' = 0
    /\ pc' = "Compositing"
    /\ UNCHANGED <<inputs, loading, tiling, executor, now, upscaled_tiles,
                   diagnostics, whole_calls, output, error>>

\* Lines 44-51, update() called by one thread alone at time t.
Updated(tracker, t) ==
    LET counted == [tracker EXCEPT !.current = @ + 1] IN
    IF Due(counted, t)
    THEN [Displayed(counted, t) EXCEPT !.last_update_time = t]
    ELSE counted

\* One iteration of the loop of lines 313-337 over
\* zip(tile_positions, upscaled_tiles).
CombineTile ==
    /\ pc = "Compositing"
    /\ i < Min(Len(tile_positions), Len(upscaled_tiles))
    /\ LET d == tile_positions[i + 1]
           t == upscaled_tiles[i + 1]
           canvas == upscaled[1]
           r == OutRegion(d, scale, canvas.cols, canvas.rows)
           p == PortionShape(t, r, scale)
           target == TargetShape(canvas, r, p)
       IN IF Assignable(p, target)
          THEN /\ upscaled' = <<[canvas EXCEPT !.writes =
                                   Assign(@, Write(r[2], r[1], target, t, d))]>>
               /\ UNCHANGED diagnostics
          ELSE /\ diagnostics' = diagnostics \cup {i}
               /\ UNCHANGED upscaled
    /\ combine_tracker' = Updated(combine_tracker, now)
    /\ i' = i + 1
    /\ UNCHANGED <<pc, inputs, loading, tiling, executor, tile_tracker, now,
                   upscaled_tiles, whole_calls, output, error>>

\* Lines 339-340 with the else branch entered after the tiled branch as well.
AfterCombineFallsThrough == "SingleShot"

\* Lines 339-340 and 377: after the tiled branch of the if statement control
\* skips the else branch and continues behind it.
AfterCombine == "Saving"

\* Lines 339 and 378-385: combine_tracker.complete() and the metrics.
FinishCompositing ==
    /\ pc = "Compositing"
    /\ i >= Min(Len(tile_positions), Len(upscaled_tiles))
    /\ combine_tracker' = [combine_tracker EXCEPT !.current = combine_tracker.total]
    /\ pc' = AfterCombine
    /\ UNCHANGED <<inputs, loading, tiling, executor, tile_tracker, now,
                   results, error>>

-----------------------------------------------------------------------------
(* The whole-image path, lines 340-375, and the save, lines 391-398 *)

\* Line 371: upscaled = sr.upsample(image), which returns or raises; a raise
\* is handled by lines 387-389.
UpsampleWhole ==
    /\ pc = "SingleShot"
    /\ whole_calls' = Append(whole_calls, WholeImage(image[1]))
    /\ \E ok \in BOOLEAN :
          IF ok
          THEN LET t == Upsample(WholeImage(image[1]), scale, delta, channels) IN
               /\ upscaled' = <<[rows |-> t.rows, cols |-> t.cols,
                                 depth |-> t.depth,
                                 writes |-> <<Write(0, 0, <<t.rows, t.cols>>, t,
                                                    <<0, 0, width, height>>)>>]>>
               /\ pc' = "Saving"
               /\ UNCHANGED error
          ELSE /\ Exit("Error during upscaling",
                       [type |-> "cv2.error", args |-> <<>>])
               /\ UNCHANGED upscaled
    /\ UNCHANGED <<inputs, loading, tiling, executor, trackers, upscaled_tiles,
                   i, diagnostics, output>>

\* Lines 392-398: cv2.imwrite(output_path, upscaled).
Save ==
    /\ pc = "Saving"
    /\ \E written \in BOOLEAN :
          IF written
          THEN /\ output' = upscaled
               /\ pc' = "Done"
               /\ UNCHANGED error
          ELSE /\ Exit("Error saving output image",
                       [type |-> "cv2.error", args |-> <<>>])
               /\ UNCHANGED output
    /\ UNCHANGED <<inputs, loading, tiling, executor, trackers, upscaled_tiles,
                   upscaled, i, diagnostics, whole_calls>>

-----------------------------------------------------------------------------
Next ==
    \/ ValidateScale
    \/ EnsureModel
    \/ ReadImage
    \/ LoadModel
    \/ Decide
    \/ CreateTile
    \/ StartDispatch
    \/ Submit
    \/ WorkerTake
    \/ \E k \in 1..Len(futures) : TileUpsample(k)
    \/ \E k \in 1..Len(futures) : TrackerLoad(k)
    \/ \E k \in 1..Len(futures) : TrackerStore(k)
    \/ \E k \in 1..Len(futures) : TrackerCheck(k)
    \/ \E k \in 1..Len(futures) : TrackerSet(k)
    \/ Collect
    \/ Join
    \/ JoinExc
    \/ BeginCompositing
    \/ CombineTile
    \/ FinishCompositing
    \/ UpsampleWhole
    \/ Save

Spec == Init /\ [][Next]_vars

\* The interpreter keeps scheduling the calling thread and the pool's threads,
\* and every external call (download, imread, readModel, upsample, imwrite)
\* returns or raises: a step that can be taken is eventually taken.
FairSpec == Spec /\ WF_vars(Next)

-----------------------------------------------------------------------------
(* The same program with the clock advancing while the trackers are in use, *)
(* for one scale and results of the exact size.  Under Spec the clock       *)
(* stands still during a run; only line 49 reads it, and a refresh of the   *)
(* display changes nothing else.                                            *)

\* Time passes between two steps of the threads.
Tick ==
    /\ pc \in {"Submit", "Collect", "Compositing"}
    /\ now < StartTime + MaxElapsed
    /\ now' = now + 1
    /\ UNCHANGED <<pc, inputs, loading, tiling, executor, tile_tracker,
                   combine_tracker, results, error>>

TimedInit == Init /\ scale = 2 /\ delta = 0 /\ off_tile = 0

TimedNext == Next \/ Tick

TimedSpec == TimedInit /\ [][TimedNext]_vars

-----------------------------------------------------------------------------
(* The tiling loop of lines 269-287 on its own, as a function of            *)
(* (width, height, tile_size): every small raster and tile size up to the   *)
(* bounds, and the rasters of Inputs that upscale_image tiles.              *)

GridHeights == {1, 20, MaxSide}

GridInputs ==
    {g \in (1..MaxSide) \X GridHeights \X (1..MaxGridTile) :
        NumTiles(g[1], g[3]) * NumTiles(g[2], g[3]) <= MaxGridTiles}
    \cup {<<in[1][1], in[1][2], in[2]>> : in \in
             {n \in Inputs : UseTiling(n[1][1], n[1][2], n[2])}}

GridInit ==
    /\ \E g \in GridInputs :
          /\ file = <<g[1], g[2]>>
          /\ image = <<[rows |-> g[2], cols |-> g[1]]>>
          /\ tile_size = g[3]
    /\ pc = "Partitioning"
    /\ mode = "tiled"
    /\ scale = 2
    /\ cpu_count = 1
    /\ delta = 0
    /\ off_tile = 0
    /\ started = TRUE
    /\ tiles = <<>>
    /\ tile_positions = <<>>
    /\ ty = 0
    /\ tx = 0
    /\ num_threads = 0
    /\ queue = <<>>
    /\ futures = <<>>
    /\ raised = {}
    /\ upscaled_tiles = <<>>
    /\ tile_tracker = NoTracker
    /\ combine_tracker = NoTracker
    /\ now = StartTime
    /\ upscaled = <<>>
    /\ i = 0
    /\ diagnostics = {}
    /\ whole_calls = <<>>
    /\ output = <<>>
    /\ error = <<>>

GridNext == CreateTile

GridSpec == GridInit /\ [][GridNext]_vars

-----------------------------------------------------------------------------
(* Vocabulary of the properties *)

\* The tiling loop has run to its end.
TilingDone == mode = "tiled" /\ (pc = "Partitioning" => ty >= num_tiles_y)

\* The combining loop has processed every tile.
CombineDone == mode = "tiled" /\ upscaled # <<>> /\ i = Len(tile_positions)

\* The rectangles written into the canvas so far.
Writes == IF upscaled = <<>> THEN <<>> ELSE upscaled[1].writes

\* Pixel (x, y) of the source lies in descriptor d.
InDescriptor(d, x, y) == d[1] <= x /\ x < d[3] /\ d[2] <= y /\ y < d[4]

\* Pixel (x, y) of the canvas lies in the rectangle w.
InWrite(w, x, y) == w.x <= x /\ x < w.x + w.cols /\ w.y <= y /\ y < w.y + w.rows

\* Two written rectangles share a pixel.
Overlapping(a, b) ==
    /\ a.rows > 0 /\ a.cols > 0 /\ b.rows > 0 /\ b.cols > 0
    /\ a.x < b.x + b.cols /\ b.x < a.x + a.cols
    /\ a.y < b.y + b.rows /\ b.y < a.y + a.rows

\* Two descriptors share a source pixel.
DescriptorsOverlap(d, e) ==
    d[1] < e[3] /\ e[1] < d[3] /\ d[2] < e[4] /\ e[2] < d[4]

\* The coordinates of an axis of length n at which membership in a set of
\* intervals can change: a pixel p lies in exactly the intervals that the
\* largest edge b <= p lies in, because no interval starts or ends inside
\* (b, p].  Quantifying over these coordinates (each edge, its two
\* neighbours and both ends of the axis) therefore decides a statement about
\* every pixel 0 <= p < n.
Representatives(n, edges) ==
    {c \in {0, n - 1} \cup edges \cup {e - 1 : e \in edges} \cup {e + 1 : e \in edges} :
        0 <= c /\ c < n}

SourceXs ==
    Representatives(width,
        UNION {{tile_positions[k][1], tile_positions[k][3]} : k \in 1..Len(tile_positions)})

SourceYs ==
    Representatives(height,
        UNION {{tile_positions[k][2], tile_positions[k][4]} : k \in 1..Len(tile_positions)})

\* The representatives are exact: every coordinate of a small raster lies in
\* the same descriptors as one of the representatives of its axis.
RepresentativesExact ==
    (TilingDone /\ width <= MaxSide /\ height <= MaxSide) =>
        /\ \A x \in 0..(width - 1) : \E r \in SourceXs :
              \A k \in 1..Len(tile_positions) :
                  (tile_positions[k][1] <= x /\ x < tile_positions[k][3])
                     <=> (tile_positions[k][1] <= r /\ r < tile_positions[k][3])
        /\ \A y \in 0..(height - 1) : \E r \in SourceYs :
              \A k \in 1..Len(tile_positions) :
                  (tile_positions[k][2] <= y /\ y < tile_positions[k][4])
                     <=> (tile_positions[k][2] <= r /\ r < tile_positions[k][4])

CanvasXs ==
    Representatives(upscaled[1].cols,
        UNION {{Writes[k].x, Writes[k].x + Writes[k].cols} : k \in 1..Len(Writes)})

CanvasYs ==
    Representatives(upscaled[1].rows,
        UNION {{Writes[k].y, Writes[k].y + Writes[k].rows} : k \in 1..Len(Writes)})

\* Every tile result has exactly scale times the size of its descriptor, and
\* the canvas's number of channels.
ExactResults ==
    \A k \in 1..Len(upscaled_tiles) :
        /\ upscaled_tiles[k].rows = scale * (tile_positions[k][4] - tile_positions[k][2])
        /\ upscaled_tiles[k].cols = scale * (tile_positions[k][3] - tile_positions[k][1])
        /\ upscaled_tiles[k].depth = channels

Terminal == {"Done", "Exited", "Raised"}

-----------------------------------------------------------------------------
(* C1  Partition coverage: once the tiling loop has finished, every source  *)
(* pixel (x, y), 0 <= x < width, 0 <= y < height, lies inside at least one  *)
(* descriptor [x_start, x_end) x [y_start, y_end).                          *)
PartitionCoverage ==
    TilingDone =>
        \A x \in SourceXs, y \in SourceYs :
            \E k \in 1..Len(tile_positions) : InDescriptor(tile_positions[k], x, y)

\* A finished grid with a tile that has overlap on both sides in x.
PartitionCoverageWitness ==
    /\ TilingDone
    /\ Len(tile_positions) = 3
    /\ tile_positions[2][1] = tile_size - overlap
    /\ tile_positions[2][3] = 2 * tile_size + overlap
    /\ tile_positions[2][3] < width

(* C2  Canvas coverage, no blank region: in tiled mode, when every tile     *)
(* result has exactly scale times the size of its descriptor, then after    *)
(* the combining loop has processed all tiles every pixel of the            *)
(* (width*scale) x (height*scale) canvas lies in at least one rectangle     *)
(* that was written.                                                        *)
CanvasCoverage ==
    (CombineDone /\ ExactResults) =>
        /\ upscaled[1].cols = width * scale
        /\ upscaled[1].rows = height * scale
        /\ \A x \in CanvasXs, y \in CanvasYs :
              \E k \in 1..Len(Writes) : InWrite(Writes[k], x, y)

\* The 2000x1500 raster, scale 2, tile_size 1024: four tiles composited into
\* a 4000x3000 canvas and saved.
CanvasCoverageWitness ==
    /\ CombineDone /\ ExactResults
    /\ pc = "Done"
    /\ Len(Writes) = 4
    /\ upscaled[1].cols = 4000 /\ upscaled[1].rows = 3000

OrderPreserved ==
    /\ \A k \in 1..Len(upscaled_tiles) :
          /\ upscaled_tiles[k].src = tiles[k]
          /\ tiles[k] = ExtractTile(image[1], tile_positions[k])
    /\ mode = "tiled" =>
          \A a \in 1..Len(Writes) :
              Writes[a].data.src = ExtractTile(image[1], Writes[a].d)

\* A later tile has finished while an earlier one is still running, and the
\* iterator has already yielded a result.
OrderPreservedWitness ==
    /\ pc = "Collect"
    /\ Len(upscaled_tiles) >= 1
    /\ \E j, k \in 1..Len(futures) :
          j < k /\ futures[j].state = "RUNNING" /\ futures[k].state = "FINISHED"

(* C5  Tile failure is fatal: once the transform of any tile has raised,    *)
(* the run never enters the combining stage, no result stands in for the    *)
(* failed tile, no canvas exists and nothing is saved; the run can only go  *)
(* on and end in the failure exit.                                          *)
TileFailureFatal ==
    raised # {} =>
        /\ pc \notin {"Join", "Joined", "Compositing", "Saving", "Done"}
        /\ upscaled = <<>>
        /\ output = <<>>
        /\ \A k \in raised : futures[k].result = <<>>
        /\ pc \in Terminal => (pc = "Exited" /\ error # <<>>)
        /\ pc \notin Terminal => ENABLED Next

\* The run has exited on a tile failure although another tile's transform
\* had succeeded.
TileFailureFatalWitness ==
    /\ pc = "Exited"
    /\ raised # {}
    /\ \E k \in 1..Len(futures) : futures[k].result # <<>>

(* C6  as claimed: increments of the tile tracker are never lost; once all  *)
(* N tile transforms have completed, and before complete() is called,       *)
(* current = N; and current never exceeds total.                            *)
TrackerCountsEveryTile ==
    /\ tile_tracker.current <= tile_tracker.total
    /\ (/\ pc \in {"Collect", "Join", "Joined"}
        /\ Len(futures) = Len(tiles)
        /\ \A k \in 1..Len(futures) :
              futures[k].state = "FINISHED" /\ futures[k].exc = <<>>)
          => tile_tracker.current = Len(tiles)

(* C7  Tiling decision: the run enters tiled mode if and only if            *)
(* tile_size > 0 and (width > tile_size or height > tile_size) and          *)
(* width*height > 1,000,000; otherwise no tile is ever produced and the     *)
(* transform is invoked once, on the whole raster.                          *)
TilingDecision ==
    /\ mode # "" =>
          (mode = "tiled" <=>
              /\ tile_size > 0
              /\ (width > tile_size \/ height > tile_size)
              /\ width * height > MinArea)
    /\ mode # "" => mode \in {"tiled", "single"}
    /\ mode = "tiled" => whole_calls = <<>>
    /\ mode # "tiled" =>
          /\ tiles = <<>> /\ tile_positions = <<>> /\ futures = <<>>
          /\ upscaled_tiles = <<>>
    /\ Len(whole_calls) <= 1
    /\ (mode = "single" /\ pc \in {"Saving", "Done"}) =>
          whole_calls = <<WholeImage(image[1])>>

\* A raster of more than 1,000,000 pixels that fits in one tile went through
\* the whole-image path.
TilingDecisionWitness ==
    /\ pc = "Done"
    /\ mode = "single"
    /\ tile_size > 0
    /\ width * height > MinArea
    /\ Len(whole_calls) = 1

(* C8  Descriptor well-formedness: every descriptor satisfies               *)
(* 0 <= x_start < x_end <= width and 0 <= y_start < y_end <= height.        *)
DescriptorsWellFormed ==
    \A k \in 1..Len(tile_positions) :
        LET d == tile_positions[k] IN
        /\ 0 <= d[1] /\ d[1] < d[3] /\ d[3] <= width
        /\ 0 <= d[2] /\ d[2] < d[4] /\ d[4] <= height

\* A descriptor whose start was moved down by the overlap and whose end the
\* overlap would have pushed past the raster.
DescriptorsWellFormedWitness ==
    /\ Len(tile_positions) >= 2
    /\ tile_positions[2][1] = tile_size - overlap
    /\ tile_positions[2][3] = width
    /\ 2 * tile_size + overlap > width

(* C9  Bounded concurrency: the number of transform invocations in          *)
(* progress is at most min(cpu_count, number of tiles).                     *)
BoundedConcurrency ==
    /\ Running <= Min(cpu_count, Len(tiles))
    /\ num_threads <= Min(cpu_count, Len(tiles))

\* Every thread of a host with several cores is busy and work is waiting.
BoundedConcurrencyWitness ==
    /\ cpu_count >= 2
    /\ Running = cpu_count
    /\ queue # <<>>

(* C10  as claimed: when a tile's transform fails, the failure the run      *)
(* reports identifies the descriptor of a tile that failed.                 *)
FailureCarriesDescriptor ==
    (pc = "Exited" /\ raised # {}) =>
        \E k \in raised : error[1].exc.args = tile_positions[k]

-----------------------------------------------------------------------------
(* C11: an unsupported scale is rejected before anything else *)

\* No asset retrieval, source load, partitioning, transform invocation,
\* canvas or output write has happened.
NothingStarted ==
    /\ ~started
    /\ image = <<>>
    /\ mode = ""
    /\ tiles = <<>> /\ tile_positions = <<>>
    /\ futures = <<>> /\ upscaled_tiles = <<>> /\ whole_calls = <<>>
    /\ upscaled = <<>>
    /\ output = <<>>

\* C11: for every scale outside {2, 3, 4} the call never gets past the
\* validation: it is still at its start or has failed with the
\* unsupported-scale ValueError carrying the scale, and in either state
\* no model download, image load, tiling, transform call or output write
\* has happened; and that failure occurs for no other scale.
InvalidScaleRejectedFirst ==
    /\ scale \notin {2, 3, 4} =>
          /\ pc \in {"Idle", "Raised"}
          /\ NothingStarted
          /\ pc = "Raised" =>
                /\ error[1].msg = "Scale is not supported"
                /\ error[1].exc = [type |-> "ValueError", args |-> <<scale>>]
    /\ pc = "Raised" => scale \notin {2, 3, 4}

InvalidScaleRejectedFirstWitness ==
    /\ pc = "Raised"
    /\ scale = 5
    /\ tile_size = 1024

-----------------------------------------------------------------------------
(* C12: join barrier and single-writer canvas *)

\* Every dispatched call of process_tile has returned and its result has
\* been collected.
AllTransformsDone ==
    /\ queue = <<>>
    /\ Running = 0
    /\ Len(futures) = Len(tiles)
    /\ \A k \in 1..Len(futures) : futures[k].state = "FINISHED"
    /\ Len(upscaled_tiles) = Len(futures)

\* A step of a worker thread: a future or the pool changes.
WorkerStep == futures' # futures \/ num_threads' # num_threads

\* C12: in tiled mode the orchestrating thread gets past the dispatch step
\* only when every dispatched transform has completed; the canvas exists,
\* and is written, only after that, so no canvas write happens while a
\* transform is running; and every step that changes the canvas is a step of
\* the orchestrating thread after the dispatch, never a step of a worker.
JoinBarrier ==
    /\ [](mode = "tiled" =>
            /\ pc \in {"Join", "Joined", "Compositing", "Saving", "Done"}
                  => AllTransformsDone
            /\ upscaled # <<>> => AllTransformsDone)
    /\ [][(mode = "tiled" /\ upscaled' # upscaled) =>
            /\ pc \in {"Joined", "Compositing"}
            /\ AllTransformsDone
            /\ ~WorkerStep]_vars

JoinBarrierWitness ==
    /\ pc = "Compositing"
    /\ cpu_count > 1
    /\ Len(tiles) > cpu_count
    /\ Len(Writes) >= 1
    /\ AllTransformsDone

-----------------------------------------------------------------------------
(* C13: the orchestrator's state machine and termination *)

\* The stage of the run that a position of upscale_image belongs to.
Phase(p) ==
    CASE p \in {"Idle", "EnsureModel", "ReadImage", "LoadModel", "Decide"}
            -> "Idle"
      [] p = "Partitioning" -> "Partitioning"
      [] p \in {"Submit", "Collect", "Join", "JoinExc", "Joined"}
            -> "Dispatching"
      [] p = "Compositing" -> "Compositing"
      [] p = "SingleShot" -> "SingleShot"
      [] p \in {"Saving", "Done"} -> "Done"
      [] p \in {"Exited", "Raised"} -> "Fatal"

PhaseOrder ==
    { <<"Idle", "Partitioning">>, <<"Partitioning", "Dispatching">>,
      <<"Dispatching", "Compositing">>, <<"Compositing", "Done">>,
      <<"Idle", "SingleShot">>, <<"SingleShot", "Done">> }

\* C13: every step of a run stays in its stage, moves along
\* Idle -> Partitioning -> Dispatching -> Compositing -> Done or along
\* Idle -> SingleShot -> Done, or leaves a stage by the fatal-error exit; a
\* run on the tiled path never invokes the transform on the whole raster and
\* a run on the single-shot path never partitions or dispatches; and, every
\* step that can be taken being eventually taken, every run eventually
\* reaches Done or the fatal-error exit.
StateMachine ==
    /\ [][\/ Phase(pc') = Phase(pc)
          \/ <<Phase(pc), Phase(pc')>> \in PhaseOrder
          \/ Phase(pc) # "Fatal" /\ Phase(pc') = "Fatal"]_vars
    /\ [](/\ Phase(pc) \in {"Partitioning", "Dispatching", "Compositing"}
               => mode = "tiled" /\ whole_calls = <<>>
          /\ Phase(pc) = "SingleShot"
               => mode = "single" /\ tiles = <<>> /\ futures = <<>>
          /\ ~(whole_calls # <<>> /\ (tiles # <<>> \/ futures # <<>>)))
    /\ <>(Phase(pc) \in {"Done", "Fatal"})

StateMachineTiledWitness ==
    /\ pc = "Done"
    /\ mode = "tiled"
    /\ Len(futures) = 4
    /\ Len(Writes) = 4

-----------------------------------------------------------------------------
(* C14: grid size and row-major order of the descriptors *)

\* ceil(a / b) for a >= 1, b >= 1: the least n with n * b >= a.
Ceil(a, b) ==
    CHOOSE n \in {a \div b, a \div b + 1} : (n - 1) * b < a /\ a <= n * b

\* C14: in tiled mode the grid has ceil(width/tile_size) columns and
\* ceil(height/tile_size) rows, each at least 1; the descriptor sequence
\* grows to exactly columns * rows entries; and the entry at index
\* cy * columns + cx is the descriptor of grid cell (cx, cy):
\* x from max(0, cx*tile_size - overlap) to
\* min(width, (cx+1)*tile_size + overlap), and likewise for y, with the tile
\* at the same index being that view of the raster. A 2000x1500 raster with
\* tile_size 1024 has a 2x2 grid.
GridRowMajor ==
    mode = "tiled" =>
        LET columns == Ceil(width, tile_size)
            rows == Ceil(height, tile_size)
        IN  /\ columns >= 1 /\ rows >= 1
            /\ Len(tile_positions) <= columns * rows
            /\ Len(tiles) = Len(tile_positions)
            /\ TilingDone => Len(tile_positions) = columns * rows
            /\ \A cy \in 0..rows - 1 : \A cx \in 0..columns - 1 :
                  LET n == cy * columns + cx + 1
                      x_start == Max(0, cx * tile_size - overlap)
                      y_start == Max(0, cy * tile_size - overlap)
                      x_end == Min(width, (cx + 1) * tile_size + overlap)
                      y_end == Min(height, (cy + 1) * tile_size + overlap)
                  IN  n <= Len(tile_positions) =>
                         /\ tile_positions[n] = <<x_start, y_start, x_end, y_end>>
                         /\ tiles[n] = [y0 |-> y_start, x0 |-> x_start,
                                        rows |-> y_end - y_start,
                                        cols |-> x_end - x_start]
            /\ (width = 2000 /\ height = 1500 /\ tile_size = 1024)
                  => columns = 2 /\ rows = 2

GridRowMajorWitness ==
    /\ TilingDone
    /\ width = 2000 /\ height = 1500 /\ tile_size = 1024
    /\ Len(tile_positions) = 4
    /\ tile_positions[2] = <<1008, 0, 2000, 1040>>
    /\ tile_positions[3] = <<0, 1008, 1040, 1500>>

-----------------------------------------------------------------------------
(* C15: throttling of the progress display *)

\* A step from tracker state old to new in which update() refreshes the
\* display does so at least update_interval after the previous refresh that
\* update() made.
Throttled(old, new) ==
    (new.refreshes > old.refreshes /\ old.refreshes > 0) =>
        new.shown_at - old.shown_at >= update_interval

\* The tracker of the combining loop, which one thread updates, keeps the
\* interval between the refreshes made by update().
ThrottledWhenSequential == [][Throttled(combine_tracker, combine_tracker')]_vars

\* update() of the combining loop's tracker has refreshed the display a
\* second time, the interval having elapsed.
SequentialRefreshTwice == combine_tracker.refreshes >= 2

\* C15: any two display refreshes made by update() on the same tracker are
\* at least 0.5 s apart, whichever way the concurrent calls of update() by
\* the worker threads interleave.
RefreshesThrottled ==
    [][/\ Throttled(tile_tracker, tile_tracker')
       /\ Throttled(combine_tracker, combine_tracker')]_vars

-----------------------------------------------------------------------------
(* Vocabulary of the claims about the combining loop's writes *)

\* The rectangle of the canvas that tile k's result is destined for: from the
\* scaled origin of its descriptor over the result cropped to the scaled
\* descriptor.
Destination(k) ==
    LET d == tile_positions[k]
        t == upscaled_tiles[k]
    IN  [x |-> d[1] * scale, y |-> d[2] * scale,
         rows |-> Min(t.rows, (d[4] - d[2]) * scale),
         cols |-> Min(t.cols, (d[3] - d[1]) * scale)]

\* Tile k's result has been assigned to the canvas: its rectangle is among
\* the writes, with the result as the data.
Written(k) ==
    \E n \in 1..Len(Writes) :
        Writes[n] = [y |-> Destination(k).y, x |-> Destination(k).x,
                     rows |-> Destination(k).rows, cols |-> Destination(k).cols,
                     data |-> upscaled_tiles[k], d |-> tile_positions[k]]

-----------------------------------------------------------------------------
(* C19: the cropped portion always fits its canvas slice *)

\* Heights (or widths) a result may have, around its own n and the canvas's m.
Sides(n, m) == {0, 1, n - 1, n, n + 1, m, m + 1}

\* C19: for every descriptor and its result, whatever the result's height
\* and width, the cropped portion has the height and width of the canvas
\* slice it is assigned to and the slice lies inside the canvas; so a
\* diagnostic is printed only for a result whose channels do not fit, never
\* on account of height or width, and a result with the canvas's channels,
\* also one smaller than scale times its tile, is written over its own
\* extent only, without a diagnostic.
PortionFits ==
    (mode = "tiled" /\ upscaled # <<>>) =>
        \A k \in 1..Len(upscaled_tiles) :
            LET d == tile_positions[k]
                t == upscaled_tiles[k]
                canvas == upscaled[1]
                r == OutRegion(d, scale, canvas.cols, canvas.rows)
                p == PortionShape(t, r, scale)
                target == TargetShape(canvas, r, p)
            IN  /\ p[1] = target[1] /\ p[2] = target[2]
                /\ 0 <= r[1] /\ r[1] + p[2] <= canvas.cols
                /\ 0 <= r[2] /\ r[2] + p[1] <= canvas.rows
                /\ \A a \in Sides(t.rows, canvas.rows) :
                   \A b \in Sides(t.cols, canvas.cols) :
                      LET u == [t EXCEPT !.rows = a, !.cols = b]
                          q == PortionShape(u, r, scale)
                          slice == TargetShape(canvas, r, q)
                      IN  /\ q[1] = slice[1] /\ q[2] = slice[2]
                          /\ r[1] + q[2] <= canvas.cols
                          /\ r[2] + q[1] <= canvas.rows
                /\ (k - 1) \in diagnostics => t.depth \notin {1, canvas.depth}
                /\ (k <= i /\ t.depth = canvas.depth) =>
                      /\ (k - 1) \notin diagnostics
                      /\ Written(k)
                      /\ Destination(k).rows = Min(t.rows, p[1])
                      /\ Destination(k).cols = Min(t.cols, p[2])

\* Every result is one row and one column short of scale times its tile; all
\* are written, short of their regions, and nothing is reported.
PortionFitsWitness ==
    /\ CombineDone
    /\ delta = -1
    /\ diagnostics = {}
    /\ Len(Writes) = 4
    /\ \A k \in 1..4 :
          /\ Written(k)
          /\ Destination(k).rows
                = (tile_positions[k][4] - tile_positions[k][2]) * scale - 1

-----------------------------------------------------------------------------
(* C16: a shape mismatch skips one tile and nothing else *)

\* Representatives of the canvas's axes with respect to the destination
\* rectangles of all tiles, written or not.
DestXs ==
    Representatives(upscaled[1].cols,
        UNION {{Destination(k).x, Destination(k).x + Destination(k).cols} :
                  k \in 1..Len(upscaled_tiles)})

DestYs ==
    Representatives(upscaled[1].rows,
        UNION {{Destination(k).y, Destination(k).y + Destination(k).rows} :
                  k \in 1..Len(upscaled_tiles)})

\* Some write has put a value into pixel (x, y) of the canvas.
Touched(x, y) == \E n \in 1..Len(Writes) : InWrite(Writes[n], x, y)

\* The tiles (numbered from 1) whose assignment raised ValueError.
Skipped == {k \in 1..Len(upscaled_tiles) : (k - 1) \in diagnostics}

-----------------------------------------------------------------------------
(* The pixels of the canvas *)

\* The write that pixel (x, y) of the canvas holds its value from: the last
\* one that covers it.
LastWrite(x, y) ==
    Writes[CHOOSE n \in 1..Len(Writes) :
              /\ InWrite(Writes[n], x, y)
              /\ \A m \in (n + 1)..Len(Writes) : ~InWrite(Writes[m], x, y)]

\* For a transform whose output pixel (ox, oy) depends only on input pixel
\* (ox div scale, oy div scale), such as pixel replication: the pixel of the
\* raster read by cv2.imread that determines canvas pixel (x, y), given the
\* write w the canvas pixel comes from.  Pixel (x - w.x, y - w.y) of the
\* result was copied, and the result's input was the view at (x0, y0).
SourcePixel(w, x, y) ==
    << w.data.src.x0 + (x - w.x) \div scale,
       w.data.src.y0 + (y - w.y) \div scale >>

\* Line 371 on the same raster: the canvas of the single-shot path is the
\* result of one call on the whole raster.
WholeWrite ==
    LET t == Upsample(WholeImage(image[1]), scale, 0, channels) IN
    Write(0, 0, <<t.rows, t.cols>>, t, <<0, 0, width, height>>)

\* Representatives of an axis for statements that depend on the set of
\* rectangles a pixel lies in and on its coordinate modulo period: between
\* two edges the rectangles do not change, so period consecutive coordinates
\* from each edge on decide the statement for every pixel of the axis.
PeriodicRepresentatives(n, edges, period) ==
    {c \in {n - 1} \cup {e + j : e \in edges \cup {0}, j \in (-1)..period} :
        0 <= c /\ c < n}

FineXs ==
    PeriodicRepresentatives(upscaled[1].cols,
        UNION {{Writes[k].x, Writes[k].x + Writes[k].cols} : k \in 1..Len(Writes)},
        scale)

FineYs ==
    PeriodicRepresentatives(upscaled[1].rows,
        UNION {{Writes[k].y, Writes[k].y + Writes[k].rows} : k \in 1..Len(Writes)},
        scale)

-----------------------------------------------------------------------------
(* C17: the tiled canvas equals the single-shot result *)

\* C17: for a transform whose output pixel (ox, oy) depends only on input
\* pixel (ox div scale, oy div scale) and whose results have exactly scale
\* times the size of their input, the canvas of the tiled path has the size
\* of the result of one call on the whole raster and every pixel of it is
\* written and holds what that result holds: the value determined by source
\* pixel (x div scale, y div scale).
TiledEqualsWhole ==
    (CombineDone /\ ExactResults) =>
        /\ upscaled[1].rows = WholeWrite.rows
        /\ upscaled[1].cols = WholeWrite.cols
        /\ \A x \in FineXs : \A y \in FineYs :
              /\ Touched(x, y)
              /\ SourcePixel(LastWrite(x, y), x, y) = SourcePixel(WholeWrite, x, y)
              /\ SourcePixel(WholeWrite, x, y) = <<x \div scale, y \div scale>>

\* A 2x2 grid composited at scale 3 from results of the exact size.
TiledEqualsWholeWitness ==
    /\ CombineDone /\ ExactResults
    /\ scale = 3
    /\ Len(Writes) = 4
    /\ \E x \in FineXs : \E y \in FineYs :
          /\ x % scale # 0 /\ y % scale # 0
          /\ LastWrite(x, y) = Writes[4]
          /\ InWrite(Writes[1], x, y)

-----------------------------------------------------------------------------
(* C18: the tile with the highest index wins *)

\* The written tiles whose destination rectangle contains canvas pixel (x, y).
Covering(x, y) ==
    {k \in 1..Len(upscaled_tiles) :
        k \notin Skipped /\ InWrite(Destination(k), x, y)}

\* The largest element of a nonempty set of numbers.
Highest(S) == CHOOSE k \in S : \A j \in S : j <= k

\* C18: after the combining loop a canvas pixel inside the destination
\* region of one or more written tiles holds the value that the result of
\* the tile with the highest row-major index among them has at that place,
\* that result being the transform's output for that tile's view of the
\* raster, whichever order the worker threads finished in; a pixel in no
\* such region is unwritten.
HighestIndexWins ==
    CombineDone =>
        \A x \in DestXs : \A y \in DestYs :
            IF Covering(x, y) = {}
            THEN ~Touched(x, y)
            ELSE LET top == Highest(Covering(x, y))
                     w == LastWrite(x, y)
                 IN  /\ Touched(x, y)
                     /\ w.data = upscaled_tiles[top]
                     /\ w.data.src = tiles[top]
                     /\ w.d = tile_positions[top]
                     /\ w.x = Destination(top).x
                     /\ w.y = Destination(top).y

\* The four tiles of a 2x2 grid, processed by more than one worker thread,
\* all cover a pixel of the canvas, which holds the fourth tile's value.
HighestIndexWinsWitness ==
    /\ CombineDone
    /\ cpu_count > 1
    /\ Len(Writes) = 4
    /\ \E x \in DestXs : \E y \in DestYs :
          /\ Covering(x, y) = {1, 2, 3, 4}
          /\ LastWrite(x, y).data.src = tiles[4]

====
